---- MODULE Spec2Model ----
(***************************************************************************)
(* A model of the chess engine of src/src/main.rs: the 64-cell board, the  *)
(* per-kind move rules (Piece::is_move_valid), the ownership/occupancy     *)
(* pre-checks (Move::is_valid), ChessBoard::execute and the loop of main   *)
(* that feeds it moves.                                                    *)
(***************************************************************************)
EXTENDS Integers, Sequences, FiniteSets, TLC

(***************************************************************************)
(* Bounds of the model.                                                    *)
(***************************************************************************)
\* Number of iterations of main's loop (calls of execute) explored from the
\* starting position.
MaxCalls == 2

(***************************************************************************)
(* Data model.                                                             *)
(***************************************************************************)
PieceType == {"Pawn", "Bishop", "Knight", "Rook", "Queen", "King"}

Color == {"White", "Black"}

\* struct BoardPos { row: u8, col: u8 }, as Move::parse produces them.
BoardPos == [row : 0..7, col : 0..7]

Pos(r, c) == [row |-> r, col |-> c]

\* Option::None, for Option<Piece>, Option<Color> and Option<BoardPos>.
None == [none |-> TRUE]

NONE_PIECE == None

is_none(x) == x = None

is_some(x) == x # None

Min(a, b) == IF a <= b THEN a ELSE b

Max(a, b) == IF a >= b THEN a ELSE b

Abs(x) == IF x < 0 THEN -x ELSE x

signum(x) == IF x > 0 THEN 1 ELSE IF x < 0 THEN -1 ELSE 0

\* An index that counts seven cells to a row.
to_idx_seven_to_a_row(p) == p.col + p.row * 7

\* (self.col + self.row * 8).into(): u8 arithmetic, at most 63 for row, col <= 7.
to_idx(p) == p.col + p.row * 8

from_idx(idx) ==
    IF idx >= 64 THEN None ELSE [row |-> idx \div 8, col |-> idx % 8]

Move(from, to) == [from |-> from, to |-> to]

Moves == [from : BoardPos, to : BoardPos]

mkPiece(color, piece, pos) == [color |-> color, piece |-> piece, pos |-> pos]

(***************************************************************************)
(* Iterator chains over board.pieces (a [Option<Piece>; 64]).  An iterator *)
(* that runs past cell 63 simply ends.                                     *)
(***************************************************************************)
\* .iter().skip(s).take(n).all(Option::is_none)
skip_take(cells, s, n) ==
    \A i \in 0..63 : (i >= s /\ i < s + n) => is_none(cells[i])

\* .iter().skip(s).take(n).step_by(st).all(Option::is_none): of the n cells
\* taken after the skip, every st-th one, starting with the first.
skip_take_step(cells, s, n, st) ==
    \A i \in 0..63 :
        (i >= s /\ i < s + n /\ (i - s) % st = 0) => is_none(cells[i])

\* .iter().skip(s).step_by(st).take(n).all(Option::is_none): the first n of
\* every st-th cell after the skip.
skip_step_take(cells, s, st, n) ==
    \A i \in 0..63 :
        (i >= s /\ (i - s) % st = 0 /\ (i - s) \div st < n) => is_none(cells[i])

(***************************************************************************)
(* Piece                                                                   *)
(***************************************************************************)
\* Piece::from_char: case gives the side, the lower-cased letter the kind.
from_char(ch) ==
    LET color == IF ch \in {"P", "B", "N", "R", "Q", "K"} THEN "White" ELSE "Black"
        piece == CASE ch \in {"p", "P"} -> "Pawn"
                   [] ch \in {"b", "B"} -> "Bishop"
                   [] ch \in {"n", "N"} -> "Knight"
                   [] ch \in {"r", "R"} -> "Rook"
                   [] ch \in {"q", "Q"} -> "Queen"
                   [] ch \in {"k", "K"} -> "King"
                   [] OTHER -> "None"
    IN IF piece = "None" THEN None ELSE mkPiece(color, piece, from_idx(0))

\* usize subtraction where the build wraps instead of panicking.  A wrapped
\* difference is at least 2^64 - 64; as the count of a take() over the 64
\* cells it acts as any count of 64 or more does.
usize_sub(a, b) == IF a >= b THEN a - b ELSE 64

\* A pawn rule that allows two rows from any row.
pawn_rule_two_rows_anywhere(self, mve, board) ==
    LET wrong_way == IF self.color = "White"
                     THEN mve.from.row <= mve.to.row
                     ELSE mve.from.row >= mve.to.row
        max_len == 2
        actual_len == Abs(mve.from.row - mve.to.row)
        attacked == board.pieces[mve.to.row * 8 + mve.to.col]
        col_diff == Abs(mve.from.col - mve.to.col)
        start == 8 * Min(mve.from.row, mve.to.row) + mve.from.col
    IN IF wrong_way THEN FALSE
       ELSE IF actual_len > max_len THEN FALSE
       ELSE IF mve.from.col # mve.to.col
            THEN ~(\/ actual_len # 1
                   \/ col_diff # 1
                   \/ is_none(attacked)
                   \/ attacked.color = self.color)
            ELSE skip_step_take(board.pieces,
                                start + (IF self.color = "Black" THEN 8 ELSE 0),
                                8, actual_len)

\* PieceType::Pawn
\* A pawn rule whose straight scan looks at the cells passed over only, not at
\* the destination.
pawn_rule_scans_passed_cells(self, mve, board) ==
    LET home_row == IF self.color = "White" THEN 6 ELSE 1
        wrong_way == IF self.color = "White"
                     THEN mve.from.row <= mve.to.row
                     ELSE mve.from.row >= mve.to.row
        max_len == IF mve.from.row = home_row THEN 2 ELSE 1
        actual_len == Abs(mve.from.row - mve.to.row)
        attacked == board.pieces[mve.to.row * 8 + mve.to.col]
        col_diff == Abs(mve.from.col - mve.to.col)
        start == 8 * Min(mve.from.row, mve.to.row) + mve.from.col
    IN IF wrong_way THEN FALSE
       ELSE IF actual_len > max_len THEN FALSE
       ELSE IF mve.from.col # mve.to.col
            THEN ~(\/ actual_len # 1
                   \/ col_diff # 1
                   \/ is_none(attacked)
                   \/ attacked.color = self.color)
            ELSE skip_step_take(board.pieces, start + 8, 8, actual_len - 1)

pawn_rule(self, mve, board) ==
    LET home_row == IF self.color = "White" THEN 6 ELSE 1
        wrong_way == IF self.color = "White"
                     THEN mve.from.row <= mve.to.row
                     ELSE mve.from.row >= mve.to.row
        max_len == IF mve.from.row = home_row THEN 2 ELSE 1
        actual_len == Abs(mve.from.row - mve.to.row)
        attacked == board.pieces[mve.to.row * 8 + mve.to.col]
        col_diff == Abs(mve.from.col - mve.to.col)
        start == 8 * Min(mve.from.row, mve.to.row) + mve.from.col
    IN IF wrong_way THEN FALSE
       ELSE IF actual_len > max_len THEN FALSE
       ELSE IF mve.from.col # mve.to.col
            THEN ~(\/ actual_len # 1
                   \/ col_diff # 1
                   \/ is_none(attacked)
                   \/ attacked.color = self.color)
            ELSE skip_step_take(board.pieces,
                                start + (IF self.color = "Black" THEN 8 ELSE 0),
                                8, actual_len)

\* A rook rule whose scan along a rank runs one cell too far, onto the end
\* of the move with the higher column.
rook_rule_scans_end_cell(self, mve, board) ==
    LET same_row == mve.from.row = mve.to.row
        same_col == mve.from.col = mve.to.col
    IN CASE ~same_row /\ ~same_col -> FALSE
         [] same_row /\ ~same_col ->
              LET start == 8 * mve.from.row + Min(mve.from.col, mve.to.col)
                  end == 8 * mve.from.row + Max(mve.from.col, mve.to.col)
              IN skip_take(board.pieces, start + 1, usize_sub(end, start))
         [] ~same_row /\ same_col ->
              LET start == 8 * Min(mve.from.row, mve.to.row) + mve.from.col
                  end == 8 * Max(mve.from.row, mve.to.row) + mve.from.col - 8
              IN skip_take_step(board.pieces, start + 8, usize_sub(end, start), 8)
         [] same_row /\ same_col -> FALSE

\* PieceType::Rook.  With neither row nor column changed the branch panics
\* (is_move_valid_panics) and returns nothing.
rook_rule(self, mve, board) ==
    LET same_row == mve.from.row = mve.to.row
        same_col == mve.from.col = mve.to.col
    IN CASE ~same_row /\ ~same_col -> FALSE
         [] same_row /\ ~same_col ->
              LET start == 8 * mve.from.row + Min(mve.from.col, mve.to.col)
                  end == 8 * mve.from.row + Max(mve.from.col, mve.to.col) - 1
              IN skip_take(board.pieces, start + 1, usize_sub(end, start))
         [] ~same_row /\ same_col ->
              LET start == 8 * Min(mve.from.row, mve.to.row) + mve.from.col
                  end == 8 * Max(mve.from.row, mve.to.row) + mve.from.col - 8
              IN skip_take_step(board.pieces, start + 8, usize_sub(end, start), 8)
         [] same_row /\ same_col -> FALSE

\* PieceType::Bishop.  With both offsets zero the assertion on sign fails
\* (is_move_valid_panics) and the branch returns nothing.
bishop_rule(self, mve, board) ==
    LET col_offset == mve.from.col - mve.to.col
        row_offset == mve.from.row - mve.to.row
        sign == signum(col_offset) * signum(row_offset)
        step == sign + 8
        start == Min(to_idx(mve.from), to_idx(mve.to))
        end == Max(to_idx(mve.from), to_idx(mve.to))
        down_skip == IF mve.from.row < mve.to.row THEN step ELSE 0
    IN IF Abs(col_offset) - Abs(row_offset) # 0 THEN FALSE
       ELSE IF sign = 0 THEN FALSE
       ELSE skip_take_step(board.pieces, start + down_skip + step,
                           usize_sub(usize_sub(end, start), step), step)

\* A knight rule that compares the offsets without sorting them.
knight_rule_unsorted(self, mve, board) ==
    LET a == Abs(mve.from.row - mve.to.row)
        b == Abs(mve.from.col - mve.to.col)
    IN <<a, b>> = <<1, 2>>

\* PieceType::Knight: the sorted absolute offsets are [1, 2].
knight_rule(self, mve, board) ==
    LET a == Abs(mve.from.row - mve.to.row)
        b == Abs(mve.from.col - mve.to.col)
    IN <<Min(a, b), Max(a, b)>> = <<1, 2>>

\* PieceType::Queen
queen_rule(self, mve, board) ==
    LET col_offset == mve.from.col - mve.to.col
        row_offset == mve.from.row - mve.to.row
        straight == col_offset = 0 \/ row_offset = 0
        diagonal == Abs(col_offset) = Abs(row_offset)
        start == Min(to_idx(mve.from), to_idx(mve.to))
        end == Max(to_idx(mve.from), to_idx(mve.to))
        step == IF straight
                THEN (IF col_offset = 0 THEN 8 ELSE 1)
                ELSE 8 + signum(col_offset) * signum(row_offset)
    IN IF ~(straight \/ diagonal) THEN FALSE
       ELSE skip_take_step(board.pieces, start + step,
                           usize_sub(usize_sub(end, start), step), step)

\* A king rule that bounds the column offset only.
king_rule_column_only(self, mve, board) ==
    LET col_offset == mve.from.col - mve.to.col
    IN Abs(col_offset) <= 1

\* PieceType::King
king_rule(self, mve, board) ==
    LET col_offset == mve.from.col - mve.to.col
        row_offset == mve.from.row - mve.to.row
    IN Abs(col_offset) <= 1 /\ Abs(row_offset) <= 1

\* Piece::is_move_valid: the value returned when the call returns.
is_move_valid(self, mve, board) ==
    CASE self.piece = "Pawn" -> pawn_rule(self, mve, board)
      [] self.piece = "Rook" -> rook_rule(self, mve, board)
      [] self.piece = "Bishop" -> bishop_rule(self, mve, board)
      [] self.piece = "Knight" -> knight_rule(self, mve, board)
      [] self.piece = "Queen" -> queen_rule(self, mve, board)
      [] self.piece = "King" -> king_rule(self, mve, board)

\* The unsigned subtractions of the Rook, Bishop and Queen branches that go
\* below zero for this move (u8 in the Rook branch, usize elsewhere).
arith_underflow(self, mve) ==
    LET col_offset == mve.from.col - mve.to.col
        row_offset == mve.from.row - mve.to.row
        start == Min(to_idx(mve.from), to_idx(mve.to))
        end == Max(to_idx(mve.from), to_idx(mve.to))
    IN CASE self.piece = "Rook" ->
              LET same_row == mve.from.row = mve.to.row
                  same_col == mve.from.col = mve.to.col
              IN \/ /\ same_row /\ ~same_col
                    /\ LET s == 8 * mve.from.row + Min(mve.from.col, mve.to.col)
                           e == 8 * mve.from.row + Max(mve.from.col, mve.to.col) - 1
                       IN e < 0 \/ e - s < 0
                 \/ /\ ~same_row /\ same_col
                    /\ LET s == 8 * Min(mve.from.row, mve.to.row) + mve.from.col
                           e == 8 * Max(mve.from.row, mve.to.row) + mve.from.col - 8
                       IN e < 0 \/ e - s < 0
         [] self.piece = "Bishop" ->
              /\ Abs(col_offset) - Abs(row_offset) = 0
              /\ signum(col_offset) * signum(row_offset) # 0
              /\ end - start - (signum(col_offset) * signum(row_offset) + 8) < 0
         [] self.piece = "Queen" ->
              LET straight == col_offset = 0 \/ row_offset = 0
                  diagonal == Abs(col_offset) = Abs(row_offset)
                  step == IF straight
                          THEN (IF col_offset = 0 THEN 8 ELSE 1)
                          ELSE 8 + signum(col_offset) * signum(row_offset)
              IN (straight \/ diagonal) /\ end - start - step < 0
         [] OTHER -> FALSE

\* Whether Piece::is_move_valid aborts the process instead of returning: the
\* Rook branch's panic!, the Bishop branch's assert!, and, in a build with
\* overflow checks, an unsigned subtraction that goes below zero.
is_move_valid_panics(self, mve, overflow_checks) ==
    \/ /\ self.piece = "Rook"
       /\ mve.from.row = mve.to.row
       /\ mve.from.col = mve.to.col
    \/ /\ self.piece = "Bishop"
       /\ Abs(mve.from.col - mve.to.col) - Abs(mve.from.row - mve.to.row) = 0
       /\ signum(mve.from.col - mve.to.col) * signum(mve.from.row - mve.to.row) = 0
    \/ overflow_checks /\ arith_underflow(self, mve)

(***************************************************************************)
(* Move                                                                    *)
(***************************************************************************)
\* Pre-checks without the test of the destination cell.
passes_prechecks_source_only(mve, board) ==
    ~(\/ is_none(board.pieces[to_idx(mve.from)])
      \/ board.pieces[to_idx(mve.from)].color # board.turn)

\* Pre-checks whose test of the destination cell looks for the other side.
passes_prechecks_wrong_side(mve, board) ==
    /\ ~(\/ is_none(board.pieces[to_idx(mve.from)])
         \/ board.pieces[to_idx(mve.from)].color # board.turn)
    /\ ~(/\ is_some(board.pieces[to_idx(mve.to)])
         /\ board.pieces[to_idx(mve.to)].color # board.turn)

\* The pre-checks of Move::is_valid: the source holds a piece of the side to
\* move and the destination does not.
passes_prechecks(mve, board) ==
    /\ ~(\/ is_none(board.pieces[to_idx(mve.from)])
         \/ board.pieces[to_idx(mve.from)].color # board.turn)
    /\ ~(/\ is_some(board.pieces[to_idx(mve.to)])
         /\ board.pieces[to_idx(mve.to)].color = board.turn)

\* Move::is_valid
is_valid(mve, board) ==
    /\ passes_prechecks(mve, board)
    /\ is_move_valid(board.pieces[to_idx(mve.from)], mve, board)

(***************************************************************************)
(* ChessBoard                                                              *)
(***************************************************************************)
\* A back rank with king and queen exchanged.
BackRank_king_on_d == <<"r", "n", "b", "k", "q", "b", "n", "r">>

BackRank == <<"r", "n", "b", "q", "k", "b", "n", "r">>

\* ChessBoard::new
new ==
    [pieces |->
        [i \in 0..63 |->
            LET p == from_idx(i)
            IN CASE p.row = 6 -> mkPiece("White", "Pawn", p)
                 [] p.row = 1 -> mkPiece("Black", "Pawn", p)
                 [] p.row = 7 -> mkPiece("White", from_char(BackRank[p.col + 1]).piece, p)
                 [] p.row = 0 -> mkPiece("Black", from_char(BackRank[p.col + 1]).piece, p)
                 [] OTHER -> NONE_PIECE],
     turn |-> "White",
     winner |-> None]

other(color) == IF color = "White" THEN "Black" ELSE "White"

\* An execute that gives the turn away on a rejected move too.
execute_always_flips_turn(board, mve) ==
    LET from_idx_ == to_idx(mve.from)
        from_piece == board.pieces[from_idx_]
        to_idx_ == to_idx(mve.to)
    IN IF is_some(from_piece) /\ is_valid(mve, board)
       THEN [board |-> [board EXCEPT !.pieces[to_idx_] = from_piece,
                                     !.pieces[from_idx_] = None,
                                     !.turn = other(board.turn)],
             ret |-> TRUE]
       ELSE [board |-> [board EXCEPT !.turn = other(board.turn)], ret |-> FALSE]

\* An execute that does not clear the source cell.
execute_keeps_source(board, mve) ==
    LET from_idx_ == to_idx(mve.from)
        from_piece == board.pieces[from_idx_]
        to_idx_ == to_idx(mve.to)
    IN IF is_some(from_piece) /\ is_valid(mve, board)
       THEN [board |-> [board EXCEPT !.pieces[to_idx_] = from_piece,
                                     !.turn = other(board.turn)],
             ret |-> TRUE]
       ELSE [board |-> board, ret |-> FALSE]

\* An execute that puts the captured piece back on the source cell.
execute_swaps(board, mve) ==
    LET from_idx_ == to_idx(mve.from)
        from_piece == board.pieces[from_idx_]
        to_idx_ == to_idx(mve.to)
    IN IF is_some(from_piece) /\ is_valid(mve, board)
       THEN [board |-> [board EXCEPT !.pieces[to_idx_] = from_piece,
                                     !.pieces[from_idx_] = board.pieces[to_idx_],
                                     !.turn = other(board.turn)],
             ret |-> TRUE]
       ELSE [board |-> board, ret |-> FALSE]

\* An execute that names the mover the winner when it takes a piece.
execute_capture_wins(board, mve) ==
    LET from_idx_ == to_idx(mve.from)
        from_piece == board.pieces[from_idx_]
        to_idx_ == to_idx(mve.to)
    IN IF is_some(from_piece) /\ is_valid(mve, board)
       THEN [board |-> [board EXCEPT !.pieces[to_idx_] = from_piece,
                                     !.pieces[from_idx_] = None,
                                     !.turn = other(board.turn),
                                     !.winner = IF is_some(board.pieces[to_idx_])
                                                THEN [some |-> board.turn]
                                                ELSE board.winner],
             ret |-> TRUE]
       ELSE [board |-> board, ret |-> FALSE]

\* An execute that leaves the turn with the mover.
execute_keeps_turn(board, mve) ==
    LET from_idx_ == to_idx(mve.from)
        from_piece == board.pieces[from_idx_]
        to_idx_ == to_idx(mve.to)
    IN IF is_some(from_piece) /\ is_valid(mve, board)
       THEN [board |-> [board EXCEPT !.pieces[to_idx_] = from_piece,
                                     !.pieces[from_idx_] = None],
             ret |-> TRUE]
       ELSE [board |-> board, ret |-> FALSE]

\* An execute that names the mover the winner when it takes a king.
execute_king_capture_wins(board, mve) ==
    LET from_idx_ == to_idx(mve.from)
        from_piece == board.pieces[from_idx_]
        to_idx_ == to_idx(mve.to)
        to_piece == board.pieces[to_idx_]
    IN IF is_some(from_piece) /\ is_valid(mve, board)
       THEN [board |-> [pieces |-> [board.pieces EXCEPT ![to_idx_] = from_piece,
                                                        ![from_idx_] = None],
                        turn |-> other(board.turn),
                        winner |-> IF is_some(to_piece) /\ to_piece.piece = "King"
                                   THEN [some |-> board.turn]
                                   ELSE board.winner],
             ret |-> TRUE]
       ELSE [board |-> board, ret |-> FALSE]

\* ChessBoard::execute, when it returns: the board it leaves and its result.
execute(board, mve) ==
    LET from_idx_ == to_idx(mve.from)
        from_piece == board.pieces[from_idx_]
        to_idx_ == to_idx(mve.to)
    IN IF is_some(from_piece) /\ is_valid(mve, board)
       THEN [board |-> [board EXCEPT !.pieces[to_idx_] = from_piece,
                                     !.pieces[from_idx_] = None,
                                     !.turn = other(board.turn)],
             ret |-> TRUE]
       ELSE [board |-> board, ret |-> FALSE]

\* Whether ChessBoard::execute reaches the per-kind rule with a call that aborts.
execute_panics(board, mve, overflow_checks) ==
    /\ is_some(board.pieces[to_idx(mve.from)])
    /\ passes_prechecks(mve, board)
    /\ is_move_valid_panics(board.pieces[to_idx(mve.from)], mve, overflow_checks)

\* Whether the call reaches an unsigned subtraction that goes below zero, whose
\* outcome depends on the build.
execute_underflows(board, mve) ==
    /\ is_some(board.pieces[to_idx(mve.from)])
    /\ passes_prechecks(mve, board)
    /\ arith_underflow(board.pieces[to_idx(mve.from)], mve)

(***************************************************************************)
(* Text: a &str is the sequence of its characters, each a Unicode code     *)
(* point; its bytes are the UTF-8 encoding of the characters.              *)
(***************************************************************************)
\* The outcome of a call that panics.
Panic == [panic |-> TRUE]

\* The byte literals of BoardPos::parse.
b_a == 97
b_h == 104
b_1 == 49
b_8 == 56

\* char::len_utf8: the bytes that encode one character.
len_utf8(ch) ==
    IF ch < 128 THEN 1 ELSE IF ch < 2048 THEN 2 ELSE IF ch < 65536 THEN 3 ELSE 4

\* str::len: the length in bytes.
RECURSIVE len(_)
len(string) ==
    IF string = <<>> THEN 0 ELSE len_utf8(Head(string)) + len(Tail(string))

\* string.chars().nth(n): the n-th character, None when there are too few.
chars_nth(string, n) ==
    IF n < Len(string) THEN [some |-> string[n + 1]] ELSE None

\* ch as u8: the low eight bits of the code point.
as_u8(ch) == ch % 256

\* The number of characters that end at or before byte offset k.
chars_upto(string, k) ==
    Cardinality({ j \in 1..Len(string) : len(SubSeq(string, 1, j)) <= k })

\* str::is_char_boundary
is_char_boundary(string, k) ==
    \/ k = 0
    \/ \E j \in 1..Len(string) : len(SubSeq(string, 1, j)) = k

\* &string[a..b]: panics unless a and b are character boundaries.
slice(string, a, b) ==
    IF a <= b /\ is_char_boundary(string, a) /\ is_char_boundary(string, b)
    THEN [str |-> SubSeq(string, chars_upto(string, a) + 1, chars_upto(string, b))]
    ELSE Panic

\* A BoardPos::parse that counts rows from white's side.
BoardPos_parse_rows_from_one(string) ==
    IF len(string) = 2
    THEN LET c0 == chars_nth(string, 0)
             c1 == chars_nth(string, 1)
         IN IF is_none(c0) \/ is_none(c1)
            THEN Panic
            ELSE LET col == as_u8(c0.some)
                     row == as_u8(c1.some)
                 IN IF col \in b_a..b_h /\ row \in b_1..b_8
                    THEN Pos(row - b_1, col - b_a)
                    ELSE None
    ELSE None

\* BoardPos::parse
BoardPos_parse(string) ==
    IF len(string) = 2
    THEN LET c0 == chars_nth(string, 0)
             c1 == chars_nth(string, 1)
         IN IF is_none(c0) \/ is_none(c1)
            THEN Panic
            ELSE LET col == as_u8(c0.some)
                     row == as_u8(c1.some)
                 IN IF col \in b_a..b_h /\ row \in b_1..b_8
                    THEN Pos(b_8 - row, col - b_a)
                    ELSE None
    ELSE None

\* Move::parse
Move_parse(string) ==
    IF len(string) = 4
    THEN LET s1 == slice(string, 0, 2)
         IN IF s1 = Panic THEN Panic ELSE
            LET from == BoardPos_parse(s1.str)
            IN IF from = Panic THEN Panic ELSE
               LET s2 == slice(string, 2, 4)
               IN IF s2 = Panic THEN Panic ELSE
                  LET to == BoardPos_parse(s2.str)
                  IN IF to = Panic THEN Panic
                     ELSE IF is_some(from) /\ is_some(to)
                          THEN Move(from, to)
                          ELSE None
    ELSE None

(***************************************************************************)
(* The program: main's board and loop.                                     *)
(***************************************************************************)
VARIABLES
    pieces,       \* board.pieces
    turn,         \* board.turn
    winner,       \* board.winner
    pc,           \* where main is: "read", "report", "judged" or "panicked"
    player_move,  \* the move of this iteration, None before it is read
    result,       \* what execute returned this iteration, None before the call
    verdict,      \* what each kind's rule returned for player_move, None if not asked
    calls,        \* calls of execute so far
    call          \* a call of a conversion with its outcome, None before one is made

vars == <<pieces, turn, winner, pc, player_move, result, verdict, calls, call>>

Board == [pieces |-> pieces, turn |-> turn, winner |-> winner]

Init ==
    /\ pieces = new.pieces
    /\ turn = new.turn
    /\ winner = new.winner
    /\ pc = "read"
    /\ player_move = None
    /\ result = None
    /\ verdict = None
    /\ calls = 0
    /\ call = None

\* board.execute(&player_move) of one iteration of main's loop, up to the
\* report of its result.  A call that reaches an unsigned subtraction below
\* zero panics in a build with overflow checks and goes on with the wrapped
\* value in a build without.
ExecuteMove(mve) ==
    /\ calls' = calls + 1
    /\ player_move' = mve
    /\ verdict' = verdict
    /\ call' = call
    /\ \E overflow_checks \in
            (IF execute_underflows(Board, mve) THEN BOOLEAN ELSE {TRUE}) :
          IF execute_panics(Board, mve, overflow_checks)
          THEN /\ pc' = "panicked"
               /\ UNCHANGED <<pieces, turn, winner, result>>
          ELSE \E out \in {execute(Board, mve)} :
                  /\ pieces' = out.board.pieces
                  /\ turn' = out.board.turn
                  /\ winner' = out.board.winner
                  /\ result' = out.ret
                  /\ pc' = "report"

\* while board.winner.is_none() { ... board.execute(&player_move) ... }
Execute ==
    /\ pc = "read"
    /\ is_none(winner)
    /\ calls < MaxCalls
    /\ \E mve \in Moves : ExecuteMove(mve)

\* The end of the iteration: player_move and result go out of scope and main
\* loops.
Loop ==
    /\ pc = "report"
    /\ pc' = "read"
    /\ player_move' = None
    /\ result' = None
    /\ UNCHANGED <<pieces, turn, winner, verdict, calls, call>>

Next ==
    \/ Execute
    \/ Loop

\* The game from the starting position.
Spec == Init /\ [][Next]_vars

(***************************************************************************)
(* The rules as functions of (piece, move, board): the boards are the      *)
(* positions of three games played from the starting position, the moves   *)
(* are all 64 x 64.                                                        *)
(***************************************************************************)
FileCol == [a |-> 0, b |-> 1, c |-> 2, d |-> 3, e |-> 4, f |-> 5, g |-> 6, h |-> 7]

\* The move that Move::parse reads from, say, "e2e4": col = letter - 'a',
\* row = '8' - digit.
mv(f1, r1, f2, r2) ==
    Move(Pos(8 - r1, FileCol[f1]), Pos(8 - r2, FileCol[f2]))

\* A game that opens the a-file and trades the rooks on it.
GameA ==
    << mv("a", 2, "a", 4), mv("b", 7, "b", 5), mv("a", 4, "b", 5), mv("h", 7, "h", 6),
       mv("b", 5, "b", 6), mv("a", 7, "b", 6), mv("a", 1, "a", 8), mv("b", 8, "c", 6),
       mv("a", 8, "c", 8) >>

\* A game of bishops and queens on open diagonals.
GameB ==
    << mv("g", 2, "g", 4), mv("d", 7, "d", 6), mv("a", 2, "a", 3), mv("c", 8, "e", 6),
       mv("f", 1, "h", 3), mv("e", 6, "b", 3), mv("c", 2, "b", 3), mv("d", 8, "d", 7),
       mv("d", 1, "c", 2) >>

\* A game in which the white queen takes the black king.
GameC ==
    << mv("e", 2, "e", 4), mv("f", 7, "f", 6), mv("d", 1, "h", 5), mv("a", 7, "a", 6),
       mv("h", 5, "e", 8), mv("d", 8, "e", 8) >>

\* A game that brings a black knight to d4, in front of the white pawn on d2,
\* and sets the pawns on e4 and e5 face to face.
GameD ==
    << mv("e", 2, "e", 4), mv("e", 7, "e", 5), mv("g", 1, "f", 3), mv("b", 8, "c", 6),
       mv("f", 1, "c", 4), mv("c", 6, "d", 4) >>

Games == <<GameA, GameB, GameC, GameD>>

\* The board after the moves are given to execute, one after the other.
RECURSIVE Play(_, _)
Play(board, moves) ==
    IF moves = <<>> THEN board
    ELSE Play(execute(board, Head(moves)).board, Tail(moves))

\* Every move of the prefix is one execute accepts.
RECURSIVE Accepted(_, _)
Accepted(board, moves) ==
    \/ moves = <<>>
    \/ /\ execute(board, Head(moves)).ret
       /\ Accepted(execute(board, Head(moves)).board, Tail(moves))

\* The positions of a game: the boards after each of its prefixes.
PositionsOf(game) ==
    { Play(new, SubSeq(game, 1, n)) :
        n \in { k \in 0..Len(game) : Accepted(new, SubSeq(game, 1, k)) } }

Positions == UNION { PositionsOf(Games[g]) : g \in 1..Len(Games) }

InitRules ==
    /\ \E board \in Positions :
          /\ pieces = board.pieces
          /\ turn = board.turn
          /\ winner = board.winner
    /\ pc = "read"
    /\ player_move = None
    /\ result = None
    /\ verdict = None
    /\ calls = 0
    /\ call = None

\* Piece::is_move_valid asked directly, for a piece of each kind of the side
\* to move and a move between two different cells.
Legality ==
    /\ pc = "read"
    /\ \E mve \in Moves :
          /\ mve.from # mve.to
          /\ player_move' = mve
          /\ verdict' = [k \in PieceType |->
                            is_move_valid(mkPiece(turn, k, mve.from), mve, Board)]
    /\ pc' = "judged"
    /\ UNCHANGED <<pieces, turn, winner, result, calls, call>>

NextRules ==
    \/ Execute
    \/ Legality

SpecRules == InitRules /\ [][NextRules]_vars

(***************************************************************************)
(* The conversions, each called once on its own with an argument from a    *)
(* bounded set.                                                            *)
(***************************************************************************)
\* Largest index given to from_idx.
MaxIdx == 80

\* Most characters of a text given to BoardPos::parse.
MaxChars == 2

\* Most characters of a text given to Move::parse, besides the texts of two
\* coordinates.
MaxMoveChars == 4

\* All texts of at most n characters of chars.
Texts(chars, n) == UNION { [1..k -> chars] : k \in 0..n }

\* The characters of the texts for BoardPos::parse: '`', a..h, i, 0, 1..8, 9,
\* and the multi-byte characters U+00E9, U+0161 and U+20AC.
Chars ==
    ((b_a - 1)..(b_h + 1)) \cup ((b_1 - 1)..(b_8 + 1)) \cup {233, 353, 8364}

\* The texts [a-h][1-8].
CoordTexts == { <<l, d>> : l \in b_a..b_h, d \in b_1..b_8 }

\* The characters of the other texts for Move::parse: a, h, i, 1, 8, 9 and
\* characters of two, three and four bytes.
MoveChars == {b_a, b_h, b_h + 1, b_1, b_8, b_8 + 1, 233, 8364, 128512}

\* The texts of two coordinates back to back.
MoveTexts == { a \o b : a \in CoordTexts, b \in CoordTexts }

InitConversions == Init

\* p.to_idx()
CallToIdx ==
    /\ call = None
    /\ \E p \in BoardPos :
          call' = [fn |-> "to_idx", arg |-> p, out |-> to_idx(p)]
    /\ UNCHANGED <<pieces, turn, winner, pc, player_move, result, verdict, calls>>

\* BoardPos::from_idx(idx)
CallFromIdx ==
    /\ call = None
    /\ \E idx \in 0..MaxIdx :
          call' = [fn |-> "from_idx", arg |-> idx, out |-> from_idx(idx)]
    /\ UNCHANGED <<pieces, turn, winner, pc, player_move, result, verdict, calls>>

\* BoardPos::parse(string)
CallBoardPosParse ==
    /\ call = None
    /\ \E string \in Texts(Chars, MaxChars) :
          call' = [fn |-> "BoardPos::parse", arg |-> string,
                   out |-> BoardPos_parse(string)]
    /\ UNCHANGED <<pieces, turn, winner, pc, player_move, result, verdict, calls>>

\* Move::parse(string)
CallMoveParse ==
    /\ call = None
    /\ \E string \in MoveTexts \cup Texts(MoveChars, MaxMoveChars) :
          call' = [fn |-> "Move::parse", arg |-> string,
                   out |-> Move_parse(string)]
    /\ UNCHANGED <<pieces, turn, winner, pc, player_move, result, verdict, calls>>

NextConversions ==
    \/ CallToIdx
    \/ CallFromIdx
    \/ CallBoardPosParse
    \/ CallMoveParse

SpecConversions == InitConversions /\ [][NextConversions]_vars

(***************************************************************************)
(* Properties.                                                             *)
(***************************************************************************)
\* This step is a call of execute with the move player_move'.
CallMade == calls' = calls + 1

\* This step is a call of execute that returned ret.
Returned(ret) == CallMade /\ pc' = "report" /\ result' = ret

\* The state is the report of a call of execute that returned ret.
Reported(ret) == pc = "report" /\ result = ret

\* The cells strictly between two cells of one rank, file or diagonal (none
\* for two cells that share no line).
between(from, to) ==
    LET dr == to.row - from.row
        dc == to.col - from.col
        n == Max(Abs(dr), Abs(dc))
    IN IF dr # 0 /\ dc # 0 /\ Abs(dr) # Abs(dc) THEN {}
       ELSE { to_idx(Pos(from.row + k * signum(dr), from.col + k * signum(dc))) :
                k \in 1..(n - 1) }

count(cells, color) ==
    Cardinality({ i \in 0..63 : is_some(cells[i]) /\ cells[i].color = color })

\* C1: a call of execute that returns false leaves the 64 cells, turn and
\* winner as they were, and execute returns false whenever the source cell is
\* empty or holds a piece of the side that is not to move.
C1_RejectedCallChangesNothing ==
    [][CallMade =>
         LET src == pieces[to_idx(player_move'.from)]
         IN /\ Returned(FALSE) =>
                  (pieces' = pieces /\ turn' = turn /\ winner' = winner)
            /\ (is_none(src) \/ src.color # turn) => Returned(FALSE)]_vars

\* A call whose source cell holds a piece of the side not to move, which the
\* piece's own rule would let through, was rejected.
C1_Witness ==
    /\ Reported(FALSE)
    /\ LET src == pieces[to_idx(player_move.from)]
       IN /\ is_some(src)
          /\ src.color # turn
          /\ is_move_valid(src, player_move, Board)
          /\ is_none(pieces[to_idx(player_move.to)])

\* C2: a call of execute that returns true for from->to leaves in the
\* destination cell the piece that was in the source cell, empties the source
\* cell, leaves the other 62 cells and winner alone and gives the turn to the
\* other side.
C2_AcceptedCallMovesOnePiece ==
    [][Returned(TRUE) =>
         LET f == to_idx(player_move'.from)
             t == to_idx(player_move'.to)
         IN /\ is_some(pieces[f])
            /\ pieces'[t] = pieces[f]
            /\ pieces'[t].color = pieces[f].color
            /\ pieces'[t].piece = pieces[f].piece
            /\ is_none(pieces'[f])
            /\ \A i \in (0..63) \ {f, t} : pieces'[i] = pieces[i]
            /\ winner' = winner
            /\ turn' \in Color /\ turn' # turn]_vars

\* The white rook has taken the black rook on a8: the capture a1a8 of GameA.
C2_Witness ==
    /\ Reported(TRUE)
    /\ player_move = mv("a", 1, "a", 8)
    /\ pieces[to_idx(Pos(0, 0))].piece = "Rook"
    /\ pieces[to_idx(Pos(0, 0))].color = "White"
    /\ is_none(pieces[to_idx(Pos(7, 0))])
    /\ count(pieces, "Black") = 14
    /\ turn = "Black"

\* C3: a call whose destination cell holds a piece of the side to move is
\* rejected, whatever the kind of the piece moved, and an accepted call leaves
\* the moving side with as many pieces as it had.
C3_OwnPieceIsNeverTaken ==
    [][CallMade =>
         LET dst == pieces[to_idx(player_move'.to)]
         IN /\ (is_some(dst) /\ dst.color = turn) => Returned(FALSE)
            /\ Returned(TRUE) => count(pieces', turn) = count(pieces, turn)]_vars

\* A king's one-cell step onto a piece of its own side was rejected.
C3_Witness ==
    /\ Reported(FALSE)
    /\ LET src == pieces[to_idx(player_move.from)]
           dst == pieces[to_idx(player_move.to)]
       IN /\ is_some(src) /\ src.color = turn /\ src.piece = "King"
          /\ player_move.from # player_move.to
          /\ is_some(dst) /\ dst.color = turn
          /\ is_move_valid(src, player_move, Board)

\* C4: execute never aborts in the game from the starting position: no call
\* panics, and a call with from = to is rejected by the pre-checks.
C4_ExecuteNeverAborts ==
    /\ pc # "panicked"
    /\ (pc = "report" /\ player_move.from = player_move.to) =>
          (result = FALSE /\ ~passes_prechecks(player_move, Board))

\* A same-cell move of a rook of the side to move was given to execute, which
\* rejected it.
C4_Witness ==
    /\ Reported(FALSE)
    /\ player_move.from = player_move.to
    /\ LET src == pieces[to_idx(player_move.from)]
       IN is_some(src) /\ src.color = turn /\ src.piece = "Rook"

\* C5 (as claimed): an accepted bishop move is diagonal, not null, and passes
\* over empty cells only; a bishop move that is not diagonal is rejected.
C5_BishopPassesOverNoPiece ==
    [][CallMade =>
         LET from == player_move'.from
             to == player_move'.to
             src == pieces[to_idx(from)]
             diag == /\ Abs(from.row - to.row) = Abs(from.col - to.col)
                     /\ from.row # to.row
         IN (is_some(src) /\ src.piece = "Bishop") =>
               /\ Returned(TRUE) =>
                     /\ diag
                     /\ \A i \in between(from, to) : is_none(pieces[i])
               /\ ~diag => Returned(FALSE)]_vars

\* C6 (as claimed): a bishop move of the side to move along a diagonal whose
\* cells strictly between are empty, to a cell that is empty or holds an
\* opposing piece, is accepted.
C6_LegalBishopMoveIsAccepted ==
    [][CallMade =>
         LET from == player_move'.from
             to == player_move'.to
             src == pieces[to_idx(from)]
             dst == pieces[to_idx(to)]
         IN (/\ is_some(src) /\ src.piece = "Bishop" /\ src.color = turn
             /\ Abs(from.row - to.row) = Abs(from.col - to.col)
             /\ from.row # to.row
             /\ \A i \in between(from, to) : is_none(pieces[i])
             /\ (is_none(dst) \/ dst.color # turn))
            => Returned(TRUE)]_vars

\* C7 (as claimed): for a move between two different cells the Queen rule
\* accepts exactly when the Rook rule or the Bishop rule does.
C7_QueenIsRookOrBishop ==
    pc = "judged" =>
        (verdict["Queen"] <=> (verdict["Rook"] \/ verdict["Bishop"]))

\* C8: for a move between two different cells the Rook rule accepts exactly
\* when one of row and column is unchanged and the cells strictly between are
\* empty, whatever the destination cell holds; on the starting board it
\* rejects a1->a8.
C8_RookRule ==
    /\ pc = "judged" =>
          LET from == player_move.from
              to == player_move.to
          IN verdict["Rook"] <=>
                /\ (from.row = to.row) # (from.col = to.col)
                /\ \A i \in between(from, to) : is_none(pieces[i])
    /\ (/\ pc = "judged"
        /\ player_move = mv("a", 1, "a", 8)
        /\ pieces = new.pieces) => ~verdict["Rook"]

\* The Rook rule accepts a1->a8 with a2..a7 empty and a piece on a8.
C8_Witness ==
    /\ pc = "judged"
    /\ player_move = mv("a", 1, "a", 8)
    /\ verdict["Rook"]
    /\ is_some(pieces[to_idx(Pos(0, 0))])
    /\ is_some(pieces[to_idx(Pos(7, 0))])

\* C9: an accepted pawn move goes forward, by at most 2 rows from the home
\* row and by 1 row otherwise; if it changes column it goes one row and one
\* column onto an opposing piece; a two-row advance in the column passes over
\* an empty cell.
C9_PawnRule ==
    [][Returned(TRUE) =>
         LET from == player_move'.from
             to == player_move'.to
             src == pieces[to_idx(from)]
             dst == pieces[to_idx(to)]
             fwd == IF src.color = "White" THEN from.row - to.row
                                            ELSE to.row - from.row
             home == IF src.color = "White" THEN 6 ELSE 1
         IN src.piece = "Pawn" =>
               /\ fwd >= 1
               /\ fwd <= (IF from.row = home THEN 2 ELSE 1)
               /\ from.col # to.col =>
                     /\ fwd = 1
                     /\ Abs(from.col - to.col) = 1
                     /\ is_some(dst)
                     /\ dst.color # src.color
               /\ (from.col = to.col /\ fwd = 2) =>
                     is_none(pieces[to_idx(Pos((from.row + to.row) \div 2, from.col))])]_vars

\* The white pawn has taken the black pawn on b5: the capture a4b5 of GameA.
C9_Witness ==
    /\ Reported(TRUE)
    /\ player_move = mv("a", 4, "b", 5)
    /\ pieces[to_idx(Pos(3, 1))].piece = "Pawn"
    /\ pieces[to_idx(Pos(3, 1))].color = "White"
    /\ count(pieces, "Black") = 15

\* C10: the Knight rule accepts exactly the moves whose absolute row and
\* column offsets are 1 and 2 in either order, whatever the board holds; on
\* the starting board execute rejects b1->b3.
C10_KnightRule ==
    /\ pc = "judged" =>
          LET a == Abs(player_move.from.row - player_move.to.row)
              b == Abs(player_move.from.col - player_move.to.col)
          IN verdict["Knight"] <=> ((a = 1 /\ b = 2) \/ (a = 2 /\ b = 1))
    /\ (/\ pc = "report"
        /\ player_move = mv("b", 1, "b", 3)
        /\ pieces = new.pieces
        /\ turn = "White") => result = FALSE

\* On the starting board execute has accepted b1->c3, over the pawns of the
\* second rank.
C10_Witness ==
    /\ Reported(TRUE)
    /\ player_move = mv("b", 1, "c", 3)
    /\ pieces = [new.pieces EXCEPT ![to_idx(Pos(5, 2))] = new.pieces[to_idx(Pos(7, 1))],
                                   ![to_idx(Pos(7, 1))] = None]


\* C11: a move of a king is accepted exactly when it is the king's side's
\* turn, the destination is another cell at most one row and one column away,
\* and the destination is empty or holds an opposing piece.
C11_KingMove ==
    [][CallMade =>
         LET from == player_move'.from
             to == player_move'.to
             src == pieces[to_idx(from)]
             dst == pieces[to_idx(to)]
         IN (is_some(src) /\ src.piece = "King") =>
               (Returned(TRUE) <=>
                   /\ src.color = turn
                   /\ to # from
                   /\ Abs(from.row - to.row) <= 1
                   /\ Abs(from.col - to.col) <= 1
                   /\ (is_none(dst) \/ dst.color # src.color))]_vars

\* A king has made a step of one row and one column.
C11_Witness ==
    /\ Reported(TRUE)
    /\ LET dst == pieces[to_idx(player_move.to)]
       IN /\ dst.piece = "King"
          /\ Abs(player_move.from.row - player_move.to.row) = 1
          /\ Abs(player_move.from.col - player_move.to.col) = 1


\* The number of pieces on the board.
total(cells) == Cardinality({ i \in 0..63 : is_some(cells[i]) })

\* C12: the board never holds more than 32 pieces, and a call of execute
\* takes exactly one piece off it when it is accepted onto an opposing piece
\* and leaves the number of pieces alone otherwise.
C12_PieceCount ==
    [][/\ total(pieces) <= 32
       /\ total(pieces') <= 32
       /\ CallMade =>
             LET dst == pieces[to_idx(player_move'.to)]
             IN IF Returned(TRUE) /\ is_some(dst)
                THEN /\ dst.color # turn
                     /\ total(pieces') = total(pieces) - 1
                ELSE total(pieces') = total(pieces)]_vars

\* 29 pieces are left after an accepted move: the third capture of GameA
\* or of GameC.
C12_Witness ==
    /\ Reported(TRUE)
    /\ total(pieces) = 29


\* The kinds of the pieces of a side that are on the board.
kinds(cells, color) ==
    { cells[i].piece : i \in { j \in 0..63 : is_some(cells[j]) /\ cells[j].color = color } }

\* C13: winner is none in every state, whatever execute has been given, so
\* the condition on which main's loop goes on stays true.
C13_WinnerStaysNone ==
    is_none(winner)

\* The white queen has just taken the black king, and winner is none.
C13_Witness ==
    /\ Reported(TRUE)
    /\ player_move = mv("h", 5, "e", 8)
    /\ pieces[to_idx(Pos(0, 4))].piece = "Queen"
    /\ "King" \notin kinds(pieces, "Black")
    /\ is_none(winner)


\* C14: the sides alternate.  White is to move at the start; an accepted
\* move moves a piece of the side to move and gives the turn to the other
\* side; a rejected call and the end of an iteration leave the turn alone, and
\* a move of a piece of the side not to move is rejected.  On the starting
\* board e2e4 is accepted and gives the turn to Black.
C14_SidesAlternate ==
    [][/\ calls = 0 => turn = "White"
       /\ ~CallMade => turn' = turn
       /\ CallMade =>
             LET src == pieces[to_idx(player_move'.from)]
             IN /\ Returned(TRUE) => (src.color = turn /\ turn' = other(turn))
                /\ Returned(FALSE) => turn' = turn
                /\ (is_some(src) /\ src.color # turn) => Returned(FALSE)
                /\ (calls = 0 /\ player_move' = mv("e", 2, "e", 4)) =>
                      (Returned(TRUE) /\ turn' = "Black")]_vars

\* After e2e4 the move d2d4, which the pawn's rule allows, was rejected: it
\* is Black's turn.
C14_Witness ==
    /\ Reported(FALSE)
    /\ calls = 2
    /\ player_move = mv("d", 2, "d", 4)
    /\ turn = "Black"
    /\ pieces[to_idx(Pos(4, 4))] = new.pieces[to_idx(Pos(6, 4))]
    /\ is_move_valid(pieces[to_idx(Pos(6, 3))], player_move, Board)


\* The order of a back rank by column, as the standard position has it.
StandardRank ==
    <<"Rook", "Knight", "Bishop", "Queen", "King", "Bishop", "Knight", "Rook">>

\* The standard starting position, cell by cell.
StandardCell(row, col) ==
    CASE row = 0 -> [color |-> "Black", piece |-> StandardRank[col + 1]]
      [] row = 1 -> [color |-> "Black", piece |-> "Pawn"]
      [] row = 6 -> [color |-> "White", piece |-> "Pawn"]
      [] row = 7 -> [color |-> "White", piece |-> StandardRank[col + 1]]
      [] OTHER -> None

\* C15: the board that new() builds is the standard starting position: row 0
\* is Black's back rank and row 7 White's, both in the order Rook, Knight,
\* Bishop, Queen, King, Bishop, Knight, Rook; row 1 holds eight black pawns
\* and row 6 eight white pawns; rows 2..5 are empty; turn is White and
\* winner is none.
C15_StartingPosition ==
    (calls = 0 /\ pc = "read") =>
        /\ \A row \in 0..7, col \in 0..7 :
              LET cell == pieces[to_idx(Pos(row, col))]
                  want == StandardCell(row, col)
              IN IF is_none(want)
                 THEN is_none(cell)
                 ELSE /\ is_some(cell)
                      /\ cell.color = want.color
                      /\ cell.piece = want.piece
        /\ turn = "White"
        /\ is_none(winner)

\* The board as new() built it, before the first call: 32 pieces, the kings
\* on column 4.
C15_Witness ==
    /\ calls = 0
    /\ pc = "read"
    /\ Board = new
    /\ total(pieces) = 32
    /\ pieces[to_idx(Pos(0, 4))].piece = "King"
    /\ pieces[to_idx(Pos(7, 4))].piece = "King"


\* The state records a call of the conversion fn.
Called(fn) == call # None /\ call.fn = fn

\* C16: coordinates and indices convert back and forth: from_idx(to_idx(p))
\* is p for every coordinate p with row and col in 0..7, to_idx(from_idx(i))
\* is i for every index i below 64, and from_idx(i) is none, without a
\* panic, for every i from 64 on.
C16_IndexRoundTrip ==
    /\ Called("to_idx") =>
          /\ call.out \in 0..63
          /\ from_idx(call.out) = call.arg
    /\ Called("from_idx") =>
          IF call.arg < 64
          THEN /\ call.out \in BoardPos
               /\ to_idx(call.out) = call.arg
          ELSE call.out = None

\* The coordinate of e2 (row 6, col 4) has been converted to the index 52,
\* which converts back to it.
C16_Witness ==
    /\ Called("to_idx")
    /\ call.arg = Pos(6, 4)
    /\ call.out = 52
    /\ from_idx(call.out) = Pos(6, 4)

\* C17: parsing never crashes and fails with none: BoardPos::parse returns
\* none for every text that is not a letter a..h followed by a digit 1..8,
\* and Move::parse returns none for every text that is not two such
\* coordinates back to back, also for texts of 2 (resp. 4) bytes that hold a
\* multi-byte character.
C17_ParsingNeverCrashes ==
    /\ Called("BoardPos::parse") =>
          /\ call.out # Panic
          /\ call.arg \notin CoordTexts => call.out = None
    /\ Called("Move::parse") =>
          /\ call.out # Panic
          /\ call.arg \notin MoveTexts => call.out = None

\* The column that a letter a..h names and the row that a digit 1..8 names.
ColOf(ch) == CHOOSE i \in 0..7 : ch = b_a + i
RowOf(ch) == CHOOSE r \in 0..7 : \E digit \in 1..8 : ch = b_1 + digit - 1 /\ r = 8 - digit

\* The text of a coordinate, as in Text("e", 2).
Text(f, r) == <<b_a + FileCol[f], b_1 + r - 1>>

\* C18: BoardPos::parse of a letter a..h followed by a digit 1..8 succeeds
\* with col = letter - 'a' and row = 8 - digit, both in 0..7 (e2 is row 6
\* col 4, a1 row 7 col 0, h8 row 0 col 7); Move::parse of two such
\* coordinates back to back yields from = the first and to = the second.
C18_ParsingOfCoordinates ==
    /\ (Called("BoardPos::parse") /\ call.arg \in CoordTexts) =>
          /\ call.out \in BoardPos
          /\ call.out = Pos(RowOf(call.arg[2]), ColOf(call.arg[1]))
          /\ call.arg = Text("e", 2) => call.out = Pos(6, 4)
          /\ call.arg = Text("a", 1) => call.out = Pos(7, 0)
          /\ call.arg = Text("h", 8) => call.out = Pos(0, 7)
    /\ (Called("Move::parse") /\ call.arg \in MoveTexts) =>
          /\ call.out \in Moves
          /\ call.out.from = BoardPos_parse(SubSeq(call.arg, 1, 2))
          /\ call.out.to = BoardPos_parse(SubSeq(call.arg, 3, 4))
          /\ call.out = Move(Pos(RowOf(call.arg[2]), ColOf(call.arg[1])),
                             Pos(RowOf(call.arg[4]), ColOf(call.arg[3])))

\* The text e2e4 has been parsed to the move from row 6 col 4 to row 4 col 4.
C18_Witness ==
    /\ Called("Move::parse")
    /\ call.arg = Text("e", 2) \o Text("e", 4)
    /\ call.out = Move(Pos(6, 4), Pos(4, 4))


\* C19: a pawn never captures by moving straight.  A call of execute that
\* moves a pawn within its column onto an occupied cell is rejected, and the
\* pawn's rule itself, asked for a pawn of either side on any cell, rejects
\* every move within the column onto a cell that holds a piece of either
\* side, by one row as by two.
C19_PawnNeverCapturesStraight ==
    [][/\ CallMade =>
             LET from == player_move'.from
                 to == player_move'.to
                 src == pieces[to_idx(from)]
             IN (/\ is_some(src)
                 /\ src.piece = "Pawn"
                 /\ from.col = to.col
                 /\ is_some(pieces[to_idx(to)])) => Returned(FALSE)
       /\ pc' = "judged" =>
             LET from == player_move'.from
                 to == player_move'.to
             IN (from.col = to.col /\ is_some(pieces[to_idx(to)])) =>
                   /\ ~verdict'["Pawn"]
                   /\ ~pawn_rule(mkPiece(other(turn), "Pawn", from), player_move', Board)]_vars

\* The white pawn on d2 was refused the two-row advance onto d4, where the
\* black knight stands, with d3 empty.
C19_Witness ==
    /\ Reported(FALSE)
    /\ player_move = mv("d", 2, "d", 4)
    /\ turn = "White"
    /\ pieces[to_idx(Pos(6, 3))].piece = "Pawn"
    /\ pieces[to_idx(Pos(6, 3))].color = "White"
    /\ is_none(pieces[to_idx(Pos(5, 3))])
    /\ pieces[to_idx(Pos(4, 3))].piece = "Knight"
    /\ pieces[to_idx(Pos(4, 3))].color = "Black"


\* A side has no king on the board.
Kingless(cells) == \E color \in Color : "King" \notin kinds(cells, color)

\* C20: the king has no protection.  A king is taken like any other piece:
\* the accepted call puts the mover on the king's cell and declares no
\* winner.  In a state where a side has no king, winner is none, and main,
\* about to read a move, has a move that execute accepts for the side to
\* move, be it the side without a king or the other.
C20_KingCanBeCaptured ==
    [][/\ (CallMade /\ Returned(TRUE)) =>
             LET from == player_move'.from
                 to == player_move'.to
                 dst == pieces[to_idx(to)]
             IN (is_some(dst) /\ dst.piece = "King") =>
                   /\ pieces'[to_idx(to)] = pieces[to_idx(from)]
                   /\ "King" \notin kinds(pieces', dst.color)
                   /\ is_none(winner')
       /\ Kingless(pieces) =>
             /\ is_none(winner)
             /\ pc = "read" => \E mve \in Moves : execute(Board, mve).ret
       /\ Kingless(pieces') => is_none(winner')]_vars

\* After the white queen took the king on e8 and Black, without a king, took
\* the queen with d8e8, a move of White has been accepted: no winner, no
\* black king, Black to move.
C20_Witness ==
    /\ Reported(TRUE)
    /\ turn = "Black"
    /\ is_none(winner)
    /\ "King" \notin kinds(pieces, "Black")
    /\ "King" \in kinds(pieces, "White")
    /\ pieces[to_idx(Pos(0, 4))] = new.pieces[to_idx(Pos(0, 3))]

====
